---- MODULE Spec2Model ----
(***************************************************************************)
(* service_account_maker (sa_maker.py): the command workflows of the CLI.  *)
(*                                                                         *)
(* One invocation of the tool runs at a time (the tool is single-threaded  *)
(* and a single writer of its key folder).  An invocation is a sequence of *)
(* steps; each step holds at most one call to the Google client or to the  *)
(* filesystem helpers of utils.misc, whose results are the inputs of the   *)
(* model.  utils.misc and utils.google are not part of the sources at      *)
(* hand: their operators below follow sections 4.3 and 4.4 of the          *)
(* specification.                                                          *)
(*                                                                         *)
(* Strings that the program builds or parses (account names, key file      *)
(* names, emails) are sequences of one-character strings.                  *)
(***************************************************************************)
EXTENDS Integers, Sequences, FiniteSets, TLC

\* ------------------------------------------------------------------ bounds
\* largest number of key files the folder holds before the first invocation
MaxInit == 2
\* largest --amount given to create-accounts (the smallest is -1)
MaxAmount == 2
\* number of invocations of the tool in one behaviour
MaxRuns == 2
\* largest number of team drives on the server
MaxDrives == 2

\* ------------------------------------------------------------ string helpers
DigitChar == <<"0", "1", "2", "3", "4", "5", "6", "7", "8", "9">>

JsonExt == <<".", "j", "s", "o", "n">>

\* the --name / --key-prefix argument of the invocations
NamePrefix == <<"s", "v", "c">>

\* str(n) for n >= 0
RECURSIVE Decimal(_)
Decimal(n) ==
    IF n < 10 THEN <<DigitChar[n + 1]>>
    ELSE Decimal(n \div 10) \o <<DigitChar[(n % 10) + 1]>>

\* f'{n:06d}' for n >= 0: left-padded with zeros to at least six characters
Format06d(n) ==
    LET d == Decimal(n)
    IN  IF Len(d) >= 6 THEN d ELSE [i \in 1..(6 - Len(d)) |-> "0"] \o d

\* f'{name}{account_number:06d}'
AccountName(name, account_number) == name \o Format06d(account_number)

\* f'{account_number}.json' inside the service key folder
ServiceKeyPath(account_number) == Decimal(account_number) \o JsonExt

IsDigit(c) == \E i \in 1..10 : DigitChar[i] = c

DigitValue(c) == (CHOOSE i \in 1..10 : DigitChar[i] = c) - 1

\* the part of a file name before a trailing ".json"; << >> when there is none
Stem(f) ==
    IF Len(f) > Len(JsonExt) /\ SubSeq(f, Len(f) - Len(JsonExt) + 1, Len(f)) = JsonExt
    THEN SubSeq(f, 1, Len(f) - Len(JsonExt))
    ELSE << >>

\* a key file name: a non-empty all-digit stem followed by ".json"
IsKeyFileName(f) ==
    /\ Stem(f) # << >>
    /\ \A i \in 1..Len(Stem(f)) : IsDigit(Stem(f)[i])

RECURSIVE ParseDecimal(_)
ParseDecimal(s) ==
    IF s = << >> THEN 0
    ELSE 10 * ParseDecimal(SubSeq(s, 1, Len(s) - 1)) + DigitValue(s[Len(s)])

\* the sequence number a key file name carries
SequenceNumber(f) == ParseDecimal(Stem(f))

SetMax(S) == CHOOSE m \in S : \A x \in S : x <= m

\* a file of the folder that is no key file
JunkFile == <<"n", "o", "t", "e", "s", ".", "t", "x", "t">>

\* ------------------------------------------------------------ Google client
NoEmail == << >>

\* the email the server assigns to the account of a name
Email(account_name) == account_name \o <<"@">>

\* a failed call: (False, error detail)
ApiFailure ==
    [success |-> FALSE,
     body |-> [isDict |-> TRUE, keys |-> {"error"}, email |-> NoEmail, issued |-> 0]]

\* (True, payload): the payload is a dict with `keys`, or no dict at all
ApiSuccess(isDict, keys, email, issued) ==
    [success |-> TRUE,
     body |-> [isDict |-> isDict, keys |-> keys, email |-> email, issued |-> issued]]

\* google.create_service_account(name): the responses and the accounts of the
\* server after each.  A name that exists already is a failure; a well-formed
\* success creates the account; after a success that lacks fields the account
\* may or may not exist.
CreateServiceAccountOutcomes(account_name, server_accounts) ==
    IF account_name \in server_accounts
    THEN {[resp |-> ApiFailure, accounts |-> server_accounts]}
    ELSE {[resp |-> ApiFailure, accounts |-> server_accounts],
          [resp |-> ApiSuccess(TRUE, {"name", "email", "uniqueId"}, Email(account_name), 0),
           accounts |-> server_accounts \cup {account_name}]} \cup
         {[resp |-> r, accounts |-> a] :
            r \in {ApiSuccess(TRUE, {"name", "email"}, Email(account_name), 0),
                   ApiSuccess(FALSE, {}, NoEmail, 0)},
            a \in {server_accounts, server_accounts \cup {account_name}}}

\* google.create_service_account_key(email): a key issued during invocation
\* `issued`, a success without privateKeyData, or a failure
CreateServiceAccountKeyOutcomes(email, issued) ==
    {ApiFailure,
     ApiSuccess(TRUE, {"name", "privateKeyData"}, email, issued),
     ApiSuccess(TRUE, {"name"}, email, issued),
     ApiSuccess(FALSE, {}, NoEmail, 0)}

\* how a response reads to an observer: "fail" (success = False), "invalid"
\* (success without the fields in `required`), "ok"
ResponseKind(resp, required) ==
    IF ~resp.success THEN "fail"
    ELSE IF resp.body.isDict /\ required \subseteq resp.body.keys THEN "ok"
    ELSE "invalid"

\* --------------------------------------------------------------- utils.misc
\* the key file a past run left for sequence number n
OldKey(n) ==
    [isDict |-> TRUE, keys |-> {"name", "privateKeyData"},
     email |-> Email(AccountName(NamePrefix, n)), issued |-> 0]

JunkContent == [isDict |-> FALSE, keys |-> {}, email |-> NoEmail, issued |-> 0]

\* misc.get_starting_account_number(folder): None when the folder cannot be
\* read, else max(sequence numbers) + 1, else the base 0
get_starting_account_number(folder_readable, folder_files) ==
    LET nums == {SequenceNumber(f) : f \in {g \in DOMAIN folder_files : IsKeyFileName(g)}}
    IN  IF ~folder_readable THEN [isNone |-> TRUE, value |-> 0]
        ELSE IF nums = {} THEN [isNone |-> FALSE, value |-> 0]
        ELSE [isNone |-> FALSE, value |-> SetMax(nums) + 1]

\* misc.dump_service_file(path, key): the folder after a write that worked
dump_service_file(folder_files, path, key) == (path :> key) @@ folder_files

VARIABLES
    pc,               \* position of the running invocation, "idle" between two
    cmd,              \* the command of the current or last invocation
    run,              \* number of invocations started
    exitCode,         \* exit code of the last invocation, -1 while one runs
    log,              \* INFO and ERROR lines of the current or last invocation
    dirExists,        \* the service key folder exists
    readable,         \* the service key folder can be listed
    files,            \* file name -> content, the service key folder
    accounts,         \* names of the service accounts on the server
    drives,           \* the team drives of the server, in list order
    perms,            \* <<drive id, email>> permissions on the server
    token,            \* the credential store
    amount,           \* create_accounts: --amount
    start,            \* create_accounts: starting_account_number
    account_number,   \* create_accounts: loop variable
    account_email,    \* create_accounts: email of the account just created
    service_key,      \* create_accounts: payload of the key just created
    td_name,          \* set_teamdrive_users: --name
    service_key_users,\* set_teamdrive_users: identities to share with
    teamdrive_id,     \* set_teamdrive_users: id the name resolved to
    ui,               \* set_teamdrive_users: position in service_key_users
    trace,            \* calls the current or last invocation made, in order
    files0,           \* the folder when the current or last invocation began
    perms0,           \* the permissions when the current or last invocation began
    lastShare,        \* the last set-teamdrive-users invocation that ended with 0
    acctReqs          \* account number -> the creation requests issued so far

vars == <<pc, cmd, run, exitCode, log, dirExists, readable, files, accounts,
          drives, perms, token, amount, start, account_number, account_email,
          service_key, td_name, service_key_users, teamdrive_id, ui, trace,
          files0, perms0, lastShare, acctReqs>>

fsVars == <<dirExists, readable, files>>
serverVars == <<accounts, drives, perms>>
caVars == <<amount, start, account_number, account_email, service_key>>
stuVars == <<td_name, service_key_users, teamdrive_id, ui>>


\* ------------------------------------------------------------------ ghosts
Event(op, num, user, kind) == [op |-> op, num |-> num, user |-> user, kind |-> kind]

Line(level, text, who, list) == [level |-> level, text |-> text, who |-> who, list |-> list]

\* the creation requests issued so far for account number n: how many, and how
\* many of them when the server held the account of that number already
Requests(n) ==
    IF n \in DOMAIN acctReqs THEN acctReqs[n] ELSE [issued |-> 0, onExisting |-> 0]

NoKey == JunkContent

NoToken == [stored |-> FALSE, by |-> 0]

NoShare == [done |-> FALSE, name |-> "none", users |-> << >>, id |-> 0]

\* the team drive names of the model
TdNames == {"media", "backup"}

\* --------------------------------------------------------------------- Init
InitFolder(k, junk) ==
    [f \in {ServiceKeyPath(n) : n \in 0..(k - 1)} \cup (IF junk THEN {JunkFile} ELSE {}) |->
        IF f = JunkFile THEN JunkContent ELSE OldKey(SequenceNumber(f))]

Init ==
    /\ pc = "idle"
    /\ cmd = "none"
    /\ run = 0
    /\ exitCode = -1
    /\ log = << >>
    /\ \E k \in 0..MaxInit, junk \in BOOLEAN, ex \in BOOLEAN, rd \in BOOLEAN :
         /\ ~ex => (k = 0 /\ ~junk /\ rd)
         /\ dirExists = ex
         /\ readable = rd
         /\ files = InitFolder(k, junk)
         /\ accounts = {AccountName(NamePrefix, n) : n \in 0..(k - 1)}
         /\ acctReqs = [n \in 0..(k - 1) |-> [issued |-> 1, onExisting |-> 0]]
    /\ drives \in {<< >>} \cup {<<[id |-> 1, name |-> name]>> : name \in TdNames}
    /\ perms = {}
    /\ token = NoToken
    /\ amount = 0
    /\ start = 0
    /\ account_number = 0
    /\ account_email = NoEmail
    /\ service_key = NoKey
    /\ td_name = "none"
    /\ service_key_users = << >>
    /\ teamdrive_id = 0
    /\ ui = 0
    /\ trace = << >>
    /\ files0 = files
    /\ perms0 = perms
    /\ lastShare = NoShare

\* app(), the callback of the click group, runs before every command and logs
\* its parameters: LOG_PATH, LOG_LEVEL and an empty line
AppLog ==
    <<Line("INFO", "LOG_PATH", NoEmail, << >>),
      Line("INFO", "LOG_LEVEL", NoEmail, << >>),
      Line("INFO", "", NoEmail, << >>)>>

\* sys.exit(code), or the return of a command function (exit code 0)
Exit(code) == pc' = "idle" /\ exitCode' = code

\* a command starts: a new invocation of the tool
Invoke(command) ==
    /\ pc = "idle"
    /\ run < MaxRuns
    /\ run' = run + 1
    /\ cmd' = command
    /\ files0' = files
    /\ perms0' = perms
    /\ lastShare' = IF cmd = "set-teamdrive-users" /\ exitCode = 0
                    THEN [done |-> TRUE, name |-> td_name, users |-> service_key_users,
                          id |-> teamdrive_id]
                    ELSE lastShare

\* ---------------------------------------------------------- create_accounts
\* a slip: `if starting_account_number is None`
StartIsFalsy_NoneOnly(r) == r.isNone

\* `if not starting_account_number`: None and 0 are both falsy
StartIsFalsy(r) == r.isNone \/ r.value = 0

\* a slip: the range is one too long
InRange_Inclusive(n, first, count) == first <= n /\ n <= first + count

\* range(starting_account_number, starting_account_number + amount)
InRange(n, first, count) == first <= n /\ n < first + count

\* a slip: the fields of the payload are not looked at
AccountResponseOk_SuccessOnly(resp) == resp.success

\* success and isinstance(service_account, dict) and 'email' in service_account
\* and 'uniqueId' in service_account
AccountResponseOk(resp) ==
    resp.success /\ resp.body.isDict /\ "email" \in resp.body.keys
                 /\ "uniqueId" \in resp.body.keys

\* a slip: the payload is not looked at
KeyResponseOk_SuccessOnly(resp) == resp.success

\* success and isinstance(service_key, dict) and 'privateKeyData' in service_key
KeyResponseOk(resp) ==
    resp.success /\ resp.body.isDict /\ "privateKeyData" \in resp.body.keys

\* a slip: the result of the write is not looked at
DumpSucceeded_Ignored(wrote) == TRUE

\* `if misc.dump_service_file(service_key_path, service_key)`
DumpSucceeded(wrote) == wrote

\* create_accounts up to the first pass of the loop: the folder is created when
\* it is missing, the start number is resolved and tested, the loop is entered
CA_Begin(n) ==
    /\ Invoke("create-accounts")
    /\ LET r == get_starting_account_number(readable, files)
       IN  /\ dirExists' = TRUE
           /\ amount' = n
           /\ start' = r.value
           /\ account_number' = r.value
           /\ account_email' = NoEmail
           /\ service_key' = NoKey
           /\ trace' = <<Event("resolve_start", r.value, NamePrefix,
                               IF r.isNone THEN "fail" ELSE "ok")>>
           /\ IF StartIsFalsy(r)
              THEN /\ log' = AppLog \o <<Line("ERROR", "Failed to determining the account number", NamePrefix, << >>)>>
                   /\ Exit(1)
              ELSE /\ log' = AppLog
                   /\ IF InRange(r.value, r.value, n)
                      THEN pc' = "ca_account" /\ exitCode' = -1
                      ELSE Exit(0)
    /\ UNCHANGED <<readable, files, accounts, drives, perms, token, acctReqs>>
    /\ UNCHANGED stuVars

\* google.create_service_account(account_name) and the test of its response
CA_CreateAccount ==
    /\ pc = "ca_account"
    /\ \E o \in CreateServiceAccountOutcomes(AccountName(NamePrefix, account_number), accounts) :
         /\ accounts' = o.accounts
         /\ trace' = Append(trace, Event("create_account", account_number,
                                         AccountName(NamePrefix, account_number),
                                         ResponseKind(o.resp, {"email", "uniqueId"})))
         /\ acctReqs' =
              (account_number :>
                 [issued |-> Requests(account_number).issued + 1,
                  onExisting |-> Requests(account_number).onExisting +
                      (IF AccountName(NamePrefix, account_number) \in accounts THEN 1 ELSE 0)])
              @@ acctReqs
         /\ IF AccountResponseOk(o.resp)
            THEN /\ account_email' = o.resp.body.email
                 /\ log' = Append(log, Line("INFO", "Created service account", o.resp.body.email, << >>))
                 /\ pc' = "ca_key"
                 /\ UNCHANGED exitCode
            ELSE /\ log' = Append(log, Line("ERROR", "Failed to create service account",
                                            AccountName(NamePrefix, account_number), << >>))
                 /\ Exit(1)
                 /\ UNCHANGED account_email
    /\ UNCHANGED <<cmd, run, drives, perms, token, amount, start, account_number,
                   service_key, files0, perms0, lastShare>>
    /\ UNCHANGED fsVars
    /\ UNCHANGED stuVars

\* google.create_service_account_key(account_email) and the test of its response
CA_CreateKey ==
    /\ pc = "ca_key"
    /\ \E r \in CreateServiceAccountKeyOutcomes(account_email, run) :
         /\ trace' = Append(trace, Event("create_key", account_number, account_email,
                                         ResponseKind(r, {"privateKeyData"})))
         /\ IF KeyResponseOk(r)
            THEN /\ service_key' = r.body
                 /\ pc' = "ca_dump"
                 /\ UNCHANGED <<exitCode, log>>
            ELSE /\ log' = Append(log, Line("ERROR", "Failed to create service key for account",
                                            account_email, << >>))
                 /\ Exit(1)
                 /\ UNCHANGED service_key
    /\ UNCHANGED <<cmd, run, token, amount, start, account_number, account_email,
                   files0, perms0, lastShare, acctReqs>>
    /\ UNCHANGED fsVars
    /\ UNCHANGED serverVars
    /\ UNCHANGED stuVars

\* misc.dump_service_file(service_key_path, service_key), then the next pass of
\* the loop or the end of the command
CA_Dump ==
    /\ pc = "ca_dump"
    /\ \E wrote \in BOOLEAN :
         /\ files' = IF wrote
                     THEN dump_service_file(files, ServiceKeyPath(account_number), service_key)
                     ELSE files
         /\ trace' = Append(trace, Event("dump", account_number, ServiceKeyPath(account_number),
                                         IF wrote THEN "ok" ELSE "fail"))
         /\ IF DumpSucceeded(wrote)
            THEN /\ log' = Append(log, Line("INFO", "Created service key for account",
                                            account_email, << >>))
                 /\ IF InRange(account_number + 1, start, amount)
                    THEN /\ account_number' = account_number + 1
                         /\ pc' = "ca_account"
                         /\ UNCHANGED exitCode
                    ELSE /\ Exit(0)
                         /\ UNCHANGED account_number
            ELSE /\ log' = Append(log, Line("ERROR", "Created service key for account, but failed to dump it",
                                            ServiceKeyPath(account_number), << >>))
                 /\ Exit(1)
                 /\ UNCHANGED account_number
    /\ UNCHANGED <<cmd, run, dirExists, readable, token, amount, start, account_email,
                   service_key, files0, perms0, lastShare, acctReqs>>
    /\ UNCHANGED serverVars
    /\ UNCHANGED stuVars


\* ------------------------------------------------- the single-call commands
\* google.exchange_code(auth_code): None, a token without access_token, or a
\* token with one, which the client stores
ExchangeCodeOutcomes(invocation, stored) ==
    {[token |-> [isNone |-> TRUE, keys |-> {}], store |-> stored],
     [token |-> [isNone |-> FALSE, keys |-> {"error"}], store |-> stored],
     [token |-> [isNone |-> FALSE, keys |-> {"access_token", "refresh_token"}],
      store |-> [stored |-> TRUE, by |-> invocation]]}

\* a slip: `if not token`
TokenRejected_FalsyOnly(tok) == tok.isNone \/ tok.keys = {}

\* `if not token or 'access_token' not in token`
TokenRejected(tok) == tok.isNone \/ tok.keys = {} \/ "access_token" \notin tok.keys

\* the link google.get_auth_link() returns
AuthLink == "auth_link"

\* authorize up to its wait for the terminal: the three INFO lines, the second
\* of them the link of google.get_auth_link(); the process then blocks in input()
Authorize_Begin ==
    /\ Invoke("authorize")
    /\ trace' = <<Event("get_auth_link", -1, NoEmail, "ok")>>
    /\ log' = AppLog \o <<Line("INFO", "Visit the link below and paste the authorization code", NoEmail, << >>),
                Line("INFO", AuthLink, NoEmail, << >>),
                Line("INFO", "Enter authorization code: ", NoEmail, << >>)>>
    /\ pc' = "auth_input"
    /\ exitCode' = -1
    /\ UNCHANGED fsVars
    /\ UNCHANGED serverVars
    /\ UNCHANGED caVars
    /\ UNCHANGED stuVars
    /\ UNCHANGED <<token, acctReqs>>

\* input() raises EOFError (end of input) or KeyboardInterrupt (Ctrl-C): the
\* exception leaves authorize and click ends the process with exit code 1;
\* google.exchange_code is not called and no line is logged
Authorize_Abort ==
    /\ pc = "auth_input"
    /\ trace' = Append(trace, Event("input", -1, NoEmail, "fail"))
    /\ Exit(1)
    /\ UNCHANGED <<cmd, run, log, token, files0, perms0, lastShare, acctReqs>>
    /\ UNCHANGED fsVars
    /\ UNCHANGED serverVars
    /\ UNCHANGED caVars
    /\ UNCHANGED stuVars

\* input() returns the code typed, google.exchange_code(auth_code), the test
\* of the token and sys.exit
Authorize_Exchange ==
    /\ pc = "auth_input"
    /\ \E o \in ExchangeCodeOutcomes(run, token) :
         /\ token' = o.store
         /\ trace' = trace \o
              <<Event("input", -1, NoEmail, "ok"),
                Event("exchange_code", -1, NoEmail,
                      IF o.token.isNone THEN "fail"
                      ELSE IF "access_token" \in o.token.keys THEN "ok" ELSE "invalid")>>
         /\ IF TokenRejected(o.token)
            THEN /\ log' = Append(log, Line("ERROR", "Failed exchanging authorization code", NoEmail, << >>))
                 /\ Exit(1)
            ELSE /\ log' = Append(log, Line("INFO", "Exchanged authorization code for an access token", NoEmail, << >>))
                 /\ Exit(0)
    /\ UNCHANGED <<cmd, run, files0, perms0, lastShare, acctReqs>>
    /\ UNCHANGED fsVars
    /\ UNCHANGED serverVars
    /\ UNCHANGED caVars
    /\ UNCHANGED stuVars

\* `if success` of list_accounts, list_teamdrives and create_teamdrive
CallSucceeded(success) == success

ListAccounts ==
    /\ Invoke("list-accounts")
    /\ \E success \in BOOLEAN :
         /\ trace' = <<Event("get_service_accounts", -1, NoEmail, IF success THEN "ok" ELSE "fail")>>
         /\ IF CallSucceeded(success)
            THEN /\ log' = AppLog \o <<Line("INFO", "Retrieving existing service accounts", NoEmail, << >>),
                             Line("INFO", "Existing service accounts", NoEmail, << >>)>>
                 /\ Exit(0)
            ELSE /\ log' = AppLog \o <<Line("INFO", "Retrieving existing service accounts", NoEmail, << >>),
                             Line("ERROR", "Failed to retrieve service accounts", NoEmail, << >>)>>
                 /\ Exit(1)
    /\ UNCHANGED fsVars
    /\ UNCHANGED serverVars
    /\ UNCHANGED caVars
    /\ UNCHANGED stuVars
    /\ UNCHANGED <<token, acctReqs>>

ListTeamdrives ==
    /\ Invoke("list-teamdrives")
    /\ \E success \in BOOLEAN :
         /\ trace' = <<Event("get_teamdrives", -1, NoEmail, IF success THEN "ok" ELSE "fail")>>
         /\ IF CallSucceeded(success)
            THEN log' = AppLog \o <<Line("INFO", "Existing teamdrives", NoEmail, << >>)>> /\ Exit(0)
            ELSE log' = AppLog \o <<Line("ERROR", "Failed to retrieve teamdrives", NoEmail, << >>)>> /\ Exit(1)
    /\ UNCHANGED fsVars
    /\ UNCHANGED serverVars
    /\ UNCHANGED caVars
    /\ UNCHANGED stuVars
    /\ UNCHANGED <<token, acctReqs>>

\* google.create_teamdrive(name): the server gives the new drive the next id;
\* names need not be unique
CreateTeamdriveOutcomes(name, server_drives) ==
    {[success |-> FALSE, drives |-> server_drives],
     [success |-> TRUE,
      drives |-> Append(server_drives, [id |-> Len(server_drives) + 1, name |-> name])]}

\* the command is modelled while the server holds fewer than MaxDrives drives
CreateTeamdrive(name) ==
    /\ Len(drives) < MaxDrives
    /\ Invoke("create-teamdrive")
    /\ \E o \in CreateTeamdriveOutcomes(name, drives) :
         /\ drives' = o.drives
         /\ trace' = <<Event("create_teamdrive", -1, NoEmail, IF o.success THEN "ok" ELSE "fail")>>
         /\ IF CallSucceeded(o.success)
            THEN log' = AppLog \o <<Line("INFO", "Created teamdrive", NoEmail, << >>)>> /\ Exit(0)
            ELSE log' = AppLog \o <<Line("ERROR", "Failed to create teamdrive", NoEmail, << >>)>> /\ Exit(1)
    /\ UNCHANGED fsVars
    /\ UNCHANGED caVars
    /\ UNCHANGED stuVars
    /\ UNCHANGED <<accounts, perms, token, acctReqs>>

\* ------------------------------------------------------ set_teamdrive_users
\* misc.get_service_account_users(folder): None when the folder cannot be read,
\* else the identity of each key file, by ascending sequence number
RECURSIVE UsersOf(_, _)
UsersOf(folder_files, nums) ==
    IF nums = {} THEN << >>
    ELSE LET m == SetMax(nums)
         IN  Append(UsersOf(folder_files, nums \ {m}), folder_files[ServiceKeyPath(m)].email)

get_service_account_users(folder_readable, folder_files) ==
    IF ~folder_readable THEN [isNone |-> TRUE, users |-> << >>]
    ELSE [isNone |-> FALSE,
          users |-> UsersOf(folder_files,
                            {SequenceNumber(f) : f \in {g \in DOMAIN folder_files : IsKeyFileName(g)}})]

\* no team drive id
NoId == 0

\* misc.get_teamdrive_id(teamdrives, name): the id of the first drive of the
\* list that carries the name, else none
get_teamdrive_id(teamdrives, name) ==
    IF \E i \in 1..Len(teamdrives) : teamdrives[i].name = name
    THEN teamdrives[CHOOSE i \in 1..Len(teamdrives) :
                       /\ teamdrives[i].name = name
                       /\ \A j \in 1..(i - 1) : teamdrives[j].name # name].id
    ELSE NoId

\* google.set_teamdrive_share_user(teamdrive_id, user): (True, ack) with the
\* permission on the server afterwards, a no-op when it was there already, or
\* (False, error detail) with the permissions as they were; the error result
\* (auth, quota, 4xx/5xx) can come for a pair that is granted already as well
SetTeamdriveShareUserOutcomes(id, user, server_perms) ==
    {[success |-> TRUE, perms |-> server_perms \cup {<<id, user>>}],
     [success |-> FALSE, perms |-> server_perms]}

\* a slip: the folder is not tested
FolderMissing_Never(exists) == FALSE

\* `if not os.path.exists(service_key_folder)`
FolderMissing(exists) == ~exists

\* a slip: `if not service_key_users`
UsersUndetermined_EmptyToo(r) == r.isNone \/ r.users = << >>

\* `if service_key_users is None`
UsersUndetermined(r) == r.isNone

\* a slip: the listing is used whether or not it was retrieved
TeamdrivesRetrieved_Ignored(success) == TRUE

\* `if not success` after google.get_teamdrives()
TeamdrivesRetrieved(success) == success

\* a slip: the loop goes on after a grant that failed
GrantSucceeded_Ignored(success) == TRUE

\* a slip: the test of the grant is inverted
GrantSucceeded_Inverted(success) == ~success

\* `if success` after google.set_teamdrive_share_user(...)
GrantSucceeded(success) == success

\* a slip: the resolved id is not tested
TeamdriveIdFalsy_Never(id) == FALSE

\* `if not teamdrive_id`
TeamdriveIdFalsy(id) == id = NoId

\* set_teamdrive_users up to its first call to the Google client: the folder is
\* tested and the identities are read from it
STU_Begin(name) ==
    /\ Invoke("set-teamdrive-users")
    /\ td_name' = name
    /\ teamdrive_id' = NoId
    /\ ui' = 0
    /\ LET r == get_service_account_users(readable, files)
           exists == Event("folder_exists", -1, NamePrefix, IF dirExists THEN "ok" ELSE "fail")
           users == Event("read_users", -1, NamePrefix, IF r.isNone THEN "fail" ELSE "ok")
       IN  IF FolderMissing(dirExists)
           THEN /\ trace' = <<exists>>
                /\ log' = AppLog \o <<Line("ERROR", "The service key folder did not exist", NamePrefix, << >>)>>
                /\ service_key_users' = << >>
                /\ Exit(1)
           ELSE IF UsersUndetermined(r)
           THEN /\ trace' = <<exists, users>>
                /\ log' = AppLog \o <<Line("ERROR", "Failed to determine the service key user(s)", NamePrefix, << >>)>>
                /\ service_key_users' = << >>
                /\ Exit(1)
           ELSE /\ trace' = <<exists, users>>
                /\ log' = AppLog
                /\ service_key_users' = r.users
                /\ pc' = "stu_list"
                /\ exitCode' = -1
    /\ UNCHANGED fsVars
    /\ UNCHANGED serverVars
    /\ UNCHANGED caVars
    /\ UNCHANGED <<token, acctReqs>>

\* google.get_teamdrives(), the resolution of the drive name, the announcement
\* of the sharing, and the loop entered (or passed, when there is no identity)
STU_List ==
    /\ pc = "stu_list"
    /\ \E success \in BOOLEAN :
         LET id == get_teamdrive_id(drives, td_name)
             listed == Event("get_teamdrives", -1, NoEmail, IF success THEN "ok" ELSE "fail")
             resolved == Event("resolve_drive", id, NoEmail, IF id = NoId THEN "fail" ELSE "ok")
         IN  /\ trace' = IF success THEN trace \o <<listed, resolved>> ELSE Append(trace, listed)
             /\ IF ~TeamdrivesRetrieved(success)
                THEN /\ log' = Append(log, Line("ERROR", "Unable to retrieve existing teamdrives", NoEmail, << >>))
                     /\ Exit(1)
                     /\ UNCHANGED <<teamdrive_id, ui>>
                ELSE IF TeamdriveIdFalsy(id)
                THEN /\ log' = Append(log, Line("ERROR", "Failed to determine teamdrive_id", NoEmail, << >>))
                     /\ teamdrive_id' = id
                     /\ Exit(1)
                     /\ UNCHANGED ui
                ELSE /\ log' = Append(log, Line("INFO", "Sharing access", NoEmail, service_key_users))
                     /\ teamdrive_id' = id
                     /\ IF service_key_users = << >>
                        THEN Exit(0) /\ UNCHANGED ui
                        ELSE pc' = "stu_grant" /\ ui' = 1 /\ UNCHANGED exitCode
    /\ UNCHANGED <<cmd, run, token, td_name, service_key_users, files0, perms0, lastShare, acctReqs>>
    /\ UNCHANGED fsVars
    /\ UNCHANGED serverVars
    /\ UNCHANGED caVars

\* google.set_teamdrive_share_user(teamdrive_id, service_key_user) for the next
\* identity, then the next pass of the loop or sys.exit
STU_Grant ==
    /\ pc = "stu_grant"
    /\ \E o \in SetTeamdriveShareUserOutcomes(teamdrive_id, service_key_users[ui], perms) :
         /\ perms' = o.perms
         /\ trace' = Append(trace, Event("grant", teamdrive_id, service_key_users[ui],
                                         IF o.success THEN "ok" ELSE "fail"))
         /\ IF GrantSucceeded(o.success)
            THEN /\ log' = Append(log, Line("INFO", "Shared access", service_key_users[ui], << >>))
                 /\ IF ui < Len(service_key_users)
                    THEN ui' = ui + 1 /\ UNCHANGED <<pc, exitCode>>
                    ELSE Exit(0) /\ UNCHANGED ui
            ELSE /\ log' = Append(log, Line("ERROR", "Failed sharing access", service_key_users[ui], << >>))
                 /\ Exit(1)
                 /\ UNCHANGED ui
    /\ UNCHANGED <<cmd, run, accounts, drives, token, td_name, service_key_users,
                   teamdrive_id, files0, perms0, lastShare, acctReqs>>
    /\ UNCHANGED fsVars
    /\ UNCHANGED caVars

\* ------------------------------------------------------------ specification
Next ==
    \/ \E n \in (0 - 1)..MaxAmount : CA_Begin(n)
    \/ CA_CreateAccount
    \/ CA_CreateKey
    \/ CA_Dump
    \/ Authorize_Begin
    \/ Authorize_Abort
    \/ Authorize_Exchange
    \/ ListAccounts
    \/ ListTeamdrives
    \/ \E name \in TdNames : CreateTeamdrive(name)
    \/ \E name \in TdNames : STU_Begin(name)
    \/ STU_List
    \/ STU_Grant

Spec == Init /\ [][Next]_vars


\* ------------------------------------------------------- words of the claims
\* the sequence numbers of the key files of a folder
KeyNumbers(folder_files) ==
    {SequenceNumber(f) : f \in {g \in DOMAIN folder_files : IsKeyFileName(g)}}

\* an invocation of the command has ended
Finished(command) == pc = "idle" /\ cmd = command

\* every step the invocation attempted so far succeeded
AllOk == \A i \in 1..Len(trace) : trace[i].kind = "ok"

\* the steps of create_accounts that belong to an account number
IndexedOps == {"create_account", "create_key", "dump"}

\* the calls that reach the Google API
ApiOps == {"create_account", "create_key", "get_teamdrives", "grant", "exchange_code",
           "get_service_accounts", "create_teamdrive"}

\* a position of the trace holds the first failed step of the invocation
FirstFailure(i) ==
    /\ i \in 1..Len(trace)
    /\ trace[i].kind # "ok"
    /\ \A j \in 1..(i - 1) : trace[j].kind = "ok"

\* prefix followed by n as six digits, n < 10, written out digit by digit
SixDigitName(n) == NamePrefix \o <<"0", "0", "0", "0", "0", DigitChar[n + 1]>>

\* C1: across the create-accounts invocations on one prefix, aborted ones
\* included, no account number is used for more than one creation request:
\* no number is requested twice, and in particular none is requested again
\* once the server holds the account that an earlier request made for it.
C1_NumbersNeverReused ==
    \A n \in DOMAIN acctReqs : acctReqs[n].onExisting = 0

\* the same, counting the requests that failed as well
C1_NoNumberRequestedTwice ==
    \A n \in DOMAIN acctReqs : acctReqs[n].issued <= 1

\* C2: when a create-accounts invocation for N accounts with resolved start s
\* ends and no step of it failed, the folder holds what it held before, unchanged,
\* plus exactly the new key files s.json .. (s+N-1).json.
C2_FullSuccessCreatesExactly ==
    (Finished("create-accounts") /\ AllOk) =>
        LET new == {ServiceKeyPath(n) : n \in start..(start + amount - 1)}
        IN  /\ DOMAIN files = DOMAIN files0 \cup new
            /\ new \cap DOMAIN files0 = {}
            /\ \A f \in DOMAIN files0 : files[f] = files0[f]

\* C3: when the first failure of a create-accounts invocation is at account
\* number s+k (account creation, key creation, validation or key write), then
\* at the end s.json .. (s+k-1).json exist, no key file numbered s+k or more
\* exists, and the exit code is not 0.
C3_FirstFailureLeavesPrefix ==
    Finished("create-accounts") =>
        \A i \in 1..Len(trace) :
            (FirstFailure(i) /\ trace[i].op \in IndexedOps) =>
                /\ InRange(trace[i].num, start, amount)
                /\ \A n \in start..(trace[i].num - 1) : ServiceKeyPath(n) \in DOMAIN files
                /\ \A n \in KeyNumbers(files) : n < trace[i].num
                /\ exitCode = 1

C3_Witness ==
    /\ Finished("create-accounts")
    /\ exitCode = 1
    /\ \E i \in 1..Len(trace) :
         /\ FirstFailure(i)
         /\ trace[i].op = "create_key"
         /\ trace[i].num = start + 1
         /\ ServiceKeyPath(start) \in DOMAIN files
         /\ ServiceKeyPath(start) \notin DOMAIN files0

\* C4: a create-accounts invocation for N accounts without a failed step, begun
\* on a folder that holds exactly the key files 0.json .. (k-1).json (k = 0: an
\* empty or absent folder), requests the accounts named prefix + six-digit index
\* for the indices k .. k+N-1 and leaves exactly the key files 0.json ..
\* (k+N-1).json; so a first run of N on an empty folder and a second run of M
\* make 0..N-1 and then N..N+M-1.
C4_RunsNumberFromZero ==
    (/\ Finished("create-accounts")
     /\ AllOk
     /\ amount >= 1
     /\ \E k \in 0..MaxInit + MaxAmount :
            DOMAIN files0 = {ServiceKeyPath(n) : n \in 0..(k - 1)}) =>
        LET k == Cardinality(DOMAIN files0)
        IN  /\ DOMAIN files = {ServiceKeyPath(n) : n \in 0..(k + amount - 1)}
            /\ {trace[i].user : i \in {j \in 1..Len(trace) : trace[j].op = "create_account"}}
                 = {SixDigitName(n) : n \in k..(k + amount - 1)}

\* C5: an invocation of any command ends with exit code 0 or 1, and with 0
\* exactly when every step it attempted succeeded.
C5_ExitZeroIffAllStepsSucceeded ==
    (pc = "idle" /\ run > 0) =>
        /\ exitCode \in {0, 1}
        /\ (exitCode = 0) <=> AllOk


IsGrant(e) == e.op = "grant"

IsSharedLine(l) == l.text = "Shared access"

\* the grant requests of the invocation, in the order issued
Grants == SelectSeq(trace, IsGrant)

\* C6: within one invocation nothing is retried: each account number gets at
\* most one account-creation and at most one key-creation request, each
\* identity at most one grant request, and once an API response has failed no
\* further API request is issued.
C6_NoRetryNoRequestAfterFailure ==
    \A i, j \in 1..Len(trace) :
        /\ (i < j /\ trace[i].op \in ApiOps /\ trace[i].kind # "ok") => trace[j].op \notin ApiOps
        /\ (i < j /\ trace[i].op = trace[j].op /\ trace[i].op \in {"create_account", "create_key"})
              => trace[i].num # trace[j].num
        /\ (i < j /\ trace[i].op = "grant" /\ trace[j].op = "grant")
              => trace[i].user # trace[j].user

C6_Witness ==
    /\ Finished("create-accounts")
    /\ amount = 2
    /\ Len(trace) = 3
    /\ trace[2].op = "create_account" /\ trace[2].kind = "ok"
    /\ trace[3].op = "create_key" /\ trace[3].kind = "fail"

\* C7: in create-accounts a success response that lacks an expected field ends
\* the batch as an API failure does: after an account response without email
\* and uniqueId no key is requested for that number and no key file exists for
\* it, after a key response without privateKeyData no key file is written, and
\* in both cases the invocation has ended with exit code 1 and the error line
\* of the failure.
C7_InvalidResponseIsFailure ==
    cmd = "create-accounts" =>
        \A i \in 1..Len(trace) :
            /\ (trace[i].op = "create_account" /\ trace[i].kind = "invalid") =>
                  /\ i = Len(trace)
                  /\ \A j \in 1..Len(trace) :
                        trace[j].op \in {"create_key", "dump"} => trace[j].num # trace[i].num
                  /\ ServiceKeyPath(trace[i].num) \notin DOMAIN files
                  /\ pc = "idle" /\ exitCode = 1
                  /\ log[Len(log)] = Line("ERROR", "Failed to create service account",
                                          trace[i].user, << >>)
            /\ (trace[i].op = "create_key" /\ trace[i].kind = "invalid") =>
                  /\ i = Len(trace)
                  /\ \A j \in 1..Len(trace) : trace[j].op = "dump" => trace[j].num # trace[i].num
                  /\ ServiceKeyPath(trace[i].num) \notin DOMAIN files
                  /\ pc = "idle" /\ exitCode = 1
                  /\ log[Len(log)] = Line("ERROR", "Failed to create service key for account",
                                          trace[i].user, << >>)

C7_Witness ==
    /\ Finished("create-accounts")
    /\ exitCode = 1
    /\ trace[Len(trace)].op = "create_key"
    /\ trace[Len(trace)].kind = "invalid"
    /\ trace[Len(trace)].num = start + 1
    /\ ServiceKeyPath(start) \in DOMAIN files

\* C8: set-teamdrive-users grants one identity at a time in the order of the
\* identity list; the first grant that fails is the last request, the
\* invocation ends with exit code 1, and its output tells the granted from the
\* pending: it announced the whole list, has one "Shared access" line for each
\* identity before the failing one, in order, and ends with the error line
\* that names the failing identity.
C8_SequentialGrantsAbortOnFirstFailure ==
    cmd = "set-teamdrive-users" =>
        /\ Len(Grants) <= Len(service_key_users)
        /\ \A i \in 1..Len(Grants) :
              /\ Grants[i].user = service_key_users[i]
              /\ Grants[i].kind # "ok" =>
                    /\ i = Len(Grants)
                    /\ pc = "idle" /\ exitCode = 1
                    /\ \E k \in 1..Len(log) :
                          log[k] = Line("INFO", "Sharing access", NoEmail, service_key_users)
                    /\ SelectSeq(log, IsSharedLine) =
                          [k \in 1..(i - 1) |->
                              Line("INFO", "Shared access", service_key_users[k], << >>)]
                    /\ log[Len(log)] = Line("ERROR", "Failed sharing access",
                                            service_key_users[i], << >>)

C8_Witness ==
    /\ Finished("set-teamdrive-users")
    /\ exitCode = 1
    /\ Len(service_key_users) = 3
    /\ Len(Grants) = 2
    /\ Grants[1].kind = "ok"
    /\ Grants[2].kind = "fail"

\* C9: after any sequence of create-accounts invocations, aborted ones
\* included, on a folder whose key files were numbered without a gap at the
\* start (the empty folder is one), the numbers of the key files present have
\* no gap.
C9_KeyNumbersContiguous ==
    LET nums == KeyNumbers(files)
    IN  \A a, b \in nums : \A c \in a..b : c \in nums

C9_Witness ==
    /\ Finished("create-accounts")
    /\ run = 2
    /\ \E n \in DOMAIN acctReqs :
         /\ acctReqs[n].issued = 2
         /\ ServiceKeyPath(n) \in DOMAIN files
         /\ files[ServiceKeyPath(n)].issued = 2
         /\ ServiceKeyPath(n - 1) \in DOMAIN files
         /\ files[ServiceKeyPath(n - 1)].issued = 1

\* a set-teamdrive-users invocation for the drive name and the identities of
\* an earlier invocation that granted them all
RepeatedShare ==
    /\ cmd = "set-teamdrive-users"
    /\ lastShare.done
    /\ td_name = lastShare.name
    /\ service_key_users = lastShare.users
    /\ service_key_users # << >>

\* C10 as stated: a second set-teamdrive-users for the same drive and the same
\* identities, after a run that granted them all, never fails: every grant is
\* reported as success, the exit code is 0, the permissions are as before.
C10_RepeatedShareNeverFails ==
    (RepeatedShare /\ pc = "idle") =>
        /\ exitCode = 0
        /\ Len(Grants) = Len(service_key_users)
        /\ \A i \in 1..Len(Grants) : Grants[i].kind = "ok"
        /\ perms = perms0

\* the invocation has listed the team drives, with the given outcome
Listed(kind) ==
    \E i \in 1..Len(trace) : trace[i].op = "get_teamdrives" /\ trace[i].kind = kind

\* C10, amended: such a second run never changes the permissions; its grants
\* go to the drive of the first run, for the identities in the order of the
\* list; it ends with exit code 0 exactly when the API reported its listing of
\* the team drives and every one of its grants as success, all identities
\* granted again, and with exit code 1 only at the listing or the grant that
\* the API reported as failed, which is its last request.
C10_RepeatedShareFailsOnlyOnApiError ==
    RepeatedShare =>
        /\ perms = perms0
        /\ \A i \in 1..Len(Grants) :
              /\ Grants[i].user = service_key_users[i]
              /\ Grants[i].num = lastShare.id
              /\ Grants[i].kind # "ok" => (i = Len(Grants) /\ pc = "idle" /\ exitCode = 1)
        /\ Listed("fail") => (Grants = << >> /\ pc = "idle" /\ exitCode = 1)
        /\ (pc = "idle" /\ exitCode = 0) =>
              /\ Listed("ok")
              /\ teamdrive_id = lastShare.id
              /\ Len(Grants) = Len(service_key_users)
              /\ \A i \in 1..Len(Grants) : Grants[i].kind = "ok"
        /\ (pc = "idle" /\ exitCode = 1) =>
              \/ Listed("fail")
              \/ (Grants # << >> /\ Grants[Len(Grants)].kind = "fail")

C10_Witness ==
    /\ RepeatedShare
    /\ pc = "idle"
    /\ exitCode = 0
    /\ Len(Grants) = 2
    /\ perms = {<<teamdrive_id, service_key_users[i]>> : i \in 1..2}


\* the step in which google.exchange_code returned
ExchangeReturned ==
    /\ cmd = "authorize"
    /\ pc = "auth_input"
    /\ Len(trace') = Len(trace) + 2
    /\ trace'[Len(trace')].op = "exchange_code"

\* C11: in authorize, when the exchange returns no token or a token without
\* access_token, the credential store stays exactly as it was and the command
\* exits 1; the store changes only in the authorize step whose exchange
\* returned an access token (so neither while the command waits for the code
\* nor when that wait is cut off).
C11_RejectedExchangeStoresNothing ==
    [][/\ (ExchangeReturned /\ trace'[Len(trace')].kind # "ok") =>
              (token' = token /\ pc' = "idle" /\ exitCode' = 1)
       /\ (token' # token) =>
              (ExchangeReturned /\ trace'[Len(trace')].kind = "ok"
                 /\ token'.stored /\ pc' = "idle" /\ exitCode' = 0)]_vars

C11_Witness ==
    /\ Finished("authorize")
    /\ exitCode = 1
    /\ Len(trace) = 3
    /\ trace[3].op = "exchange_code"
    /\ trace[3].kind = "invalid"
    /\ token.stored
    /\ token.by = run - 1

\* the positions of the drives that carry the requested name
Matches == {i \in 1..Len(drives) : drives[i].name = td_name}

\* the invocation has resolved the drive name, with the given outcome
Resolved(kind) ==
    \E i \in 1..Len(trace) : trace[i].op = "resolve_drive" /\ trace[i].kind = kind

\* C12: set-teamdrive-users resolves the drive by exact name over the listed
\* drives: every grant goes to the first listed drive that carries the name,
\* also when several carry it, which is no error; when the drives were listed
\* and none carries the name the command ends with exit code 1 and no grant.
C12_FirstMatchingDriveWins ==
    cmd = "set-teamdrive-users" =>
        /\ \A i \in 1..Len(Grants) :
              /\ Matches # {}
              /\ Grants[i].num = drives[CHOOSE m \in Matches : \A o \in Matches : m <= o].id
        /\ (Listed("ok") /\ Matches # {}) => Resolved("ok")
        /\ (Listed("ok") /\ Matches # {} /\ pc = "idle" /\ exitCode = 1) =>
              (Grants # << >> /\ Grants[Len(Grants)].kind = "fail")
        /\ (Listed("ok") /\ Matches = {}) =>
              (Resolved("fail") /\ pc = "idle" /\ exitCode = 1 /\ Grants = << >>)

C12_Witness ==
    /\ Finished("set-teamdrive-users")
    /\ exitCode = 0
    /\ Len(drives) = 2
    /\ drives[1].name = td_name
    /\ drives[2].name = td_name
    /\ Len(Grants) = 2
    /\ \A i \in 1..2 : Grants[i].num = drives[1].id

\* create_accounts took the resolved start number for a failure
StartRejected ==
    /\ Len(log) > Len(AppLog)
    /\ log[Len(AppLog) + 1] = Line("ERROR", "Failed to determining the account number", NamePrefix, << >>)

\* C13: on a folder that can be read create-accounts works with a start
\* number and reports no error about it: the number is k+1 when the folder
\* holds the key files 0.json .. k.json, and the base 0 when it holds no key
\* file (an empty or a newly created folder); files with non-numeric names
\* change neither and cause no error.
C13_StartAfterLastKeyFile ==
    (cmd = "create-accounts" /\ readable) =>
        LET keyfiles == DOMAIN files0 \ {JunkFile}
        IN  /\ trace[1].op = "resolve_start" /\ trace[1].kind = "ok"
            /\ trace[1].num = start
            /\ ~StartRejected
            /\ keyfiles = {} => start = 0
            /\ \A k \in 0..(MaxInit + MaxRuns * MaxAmount) :
                  keyfiles = {ServiceKeyPath(n) : n \in 0..k} => start = k + 1

\* the step of create_accounts at position p of its trace, after the
\* resolution of the start number at position 1
StepOp(p) == <<"create_account", "create_key", "dump">>[((p - 2) % 3) + 1]

StepNum(p) == start + ((p - 2) \div 3)

\* C14: within one create-accounts invocation the steps come one at a time in
\* ascending order: account, key, key file of number s, then of s+1, ...; the
\* key of i is requested only after the account of i was created and found
\* valid, i.json is written only after the key of i was created and found
\* valid, and the account of i+1 is requested only after i.json was written.
C14_StepsInAscendingOrder ==
    cmd = "create-accounts" =>
        \A p \in 2..Len(trace) :
            /\ trace[p].op = StepOp(p)
            /\ trace[p].num = StepNum(p)
            /\ trace[p - 1].kind = "ok"

C14_Witness ==
    /\ Finished("create-accounts")
    /\ exitCode = 0
    /\ amount = 2
    /\ Len(trace) = 7

\* C15: set-teamdrive-users issues a grant only after, in this order, the key
\* folder was found, the identities were read, the team drives were listed and
\* the drive name was resolved; when the folder does not exist it ends with
\* exit code 1 and has issued no API request.
C15_GrantsOnlyAfterChecks ==
    cmd = "set-teamdrive-users" =>
        /\ trace[1].op = "folder_exists"
        /\ Grants # << >> =>
              /\ Len(trace) >= 5
              /\ <<trace[1].op, trace[2].op, trace[3].op, trace[4].op>> =
                    <<"folder_exists", "read_users", "get_teamdrives", "resolve_drive">>
              /\ \A i \in 1..4 : trace[i].kind = "ok"
              /\ \A i \in 5..Len(trace) : trace[i].op = "grant"
        /\ trace[1].kind = "fail" =>
              /\ \A i \in 1..Len(trace) : trace[i].op \notin ApiOps
              /\ pc = "idle" /\ exitCode = 1
              /\ perms = perms0

C15_Witness ==
    /\ Finished("set-teamdrive-users")
    /\ exitCode = 1
    /\ ~dirExists
    /\ trace = <<Event("folder_exists", -1, NamePrefix, "fail")>>

\* C16: create-accounts requests an account only when the resolved start
\* number is a number other than 0: when the resolver returns the error
\* sentinel or 0 the command issues no API request, writes no key file and
\* ends with exit code 1.
C16_NoRequestOnFalsyStart ==
    cmd = "create-accounts" =>
        /\ (trace[1].kind = "fail" \/ trace[1].num = 0) =>
              /\ Len(trace) = 1
              /\ files = files0
              /\ pc = "idle" /\ exitCode = 1
        /\ (\E i \in 1..Len(trace) : trace[i].op \in ApiOps) =>
              (trace[1].kind = "ok" /\ start # 0)

C16_Witness ==
    /\ Finished("create-accounts")
    /\ exitCode = 1
    /\ amount = 2
    /\ trace = <<Event("resolve_start", 0, NamePrefix, "ok")>>

\* the account numbers for which this invocation got a success response to its
\* creation request and for which the folder holds no key file
Keyless ==
    {trace[i].num : i \in {j \in 1..Len(trace) :
        /\ trace[j].op = "create_account"
        /\ trace[j].kind # "fail"
        /\ ServiceKeyPath(trace[j].num) \notin DOMAIN files}}

\* C17: of the accounts a create-accounts invocation created at most one has no
\* key file, the one of the number at which the batch stopped; and every key
\* file i.json the invocation wrote holds the key issued in this invocation
\* for the account it created with number i; it wrote no other file.
C17_OneKeylessAccountAtMost ==
    cmd = "create-accounts" =>
        /\ Keyless \subseteq {account_number}
        /\ (pc = "idle" /\ Keyless # {}) => exitCode = 1
        /\ \A f \in DOMAIN files :
              (f \notin DOMAIN files0 \/ files[f] # files0[f]) =>
                  \E i \in 1..Len(trace) :
                      /\ trace[i].op = "create_account" /\ trace[i].kind = "ok"
                      /\ f = ServiceKeyPath(trace[i].num)
                      /\ f \notin DOMAIN files0
                      /\ files[f].email = Email(trace[i].user)
                      /\ files[f].issued = run

C17_Witness ==
    /\ Finished("create-accounts")
    /\ exitCode = 1
    /\ Keyless = {start + 1}
    /\ ServiceKeyPath(start) \in DOMAIN files
    /\ files[ServiceKeyPath(start)].issued = run

\* how many steps of the kind the invocation has made
Count(op) == Cardinality({i \in 1..Len(trace) : trace[i].op = op})

\* C18: a create-accounts invocation ends: for amount N it issues at most N
\* account requests and at most N key requests, each of its steps adds one to
\* a trace of at most 1 + 3N steps and a step is possible as long as it has not
\* ended; with an amount of 0 or less and a start number that passed the test
\* it issues no API request, writes no file and ends with exit code 0.
C18_BoundedBatch ==
    cmd = "create-accounts" =>
        LET N == IF amount > 0 THEN amount ELSE 0
        IN  /\ Count("create_account") <= N
            /\ Count("create_key") <= N
            /\ Len(trace) <= 1 + 3 * N
            /\ pc # "idle" => ENABLED (CA_CreateAccount \/ CA_CreateKey \/ CA_Dump)
            /\ (amount <= 0 /\ trace[1].kind = "ok" /\ start # 0) =>
                  /\ Len(trace) = 1
                  /\ files = files0
                  /\ pc = "idle" /\ exitCode = 0

C18_Witness ==
    /\ Finished("create-accounts")
    /\ amount = 0
    /\ start = 2
    /\ exitCode = 0
    /\ trace = <<Event("resolve_start", 2, NamePrefix, "ok")>>

\* the invocation has read the identities, with the given outcome
UsersRead(kind) ==
    \E i \in 1..Len(trace) : trace[i].op = "read_users" /\ trace[i].kind = kind

\* C19: in set-teamdrive-users an empty identity list is no failure: when the
\* folder yields no identity the command goes on to list the drives, and when
\* the name resolves it issues no grant and ends with exit code 0; only an
\* identity list that could not be determined (None) ends it with exit code 1
\* before the listing.
C19_EmptyIdentityListIsSuccess ==
    cmd = "set-teamdrive-users" =>
        /\ (UsersRead("ok") /\ pc = "idle") => Len(trace) >= 3
        /\ (UsersRead("ok") /\ service_key_users = << >> /\ Resolved("ok")) =>
              (Grants = << >> /\ pc = "idle" /\ exitCode = 0 /\ perms = perms0)
        /\ UsersRead("fail") => (Len(trace) = 2 /\ pc = "idle" /\ exitCode = 1)

C19_Witness ==
    /\ Finished("set-teamdrive-users")
    /\ exitCode = 0
    /\ dirExists
    /\ service_key_users = << >>
    /\ Resolved("ok")
    /\ Grants = << >>

====
